---- MODULE Spec2Model ----
(***************************************************************************)
(* fuse_truncate_history: the snapshot-chain garbage collector of the fuse *)
(* table engine (FuseTruncateHistory::read).  A run walks the table's      *)
(* snapshot history, computes the segments and blocks that only superseded *)
(* snapshots reference, and removes blocks, then segments, then the        *)
(* historical snapshot records from the object store.                      *)
(***************************************************************************)
EXTENDS Integers, Sequences, FiniteSets, TLC

\* ---------------------------------------------------------------- bounds
\* longest snapshot chain [S0, S1, ...] a table starts with
MaxChain == 3

\* snapshots a concurrent writer promotes
MaxCommits == 2

\* segment and block names of the modelled table
SegNames == {"a", "b"}
BlockNames == {"x", "y"}

\* the GC invocations; Spec runs them one after the other on invocation 1
RunIds == {1, 2}

\* storage engines of the target table; the table function applies to FUSE
Engines == {"FUSE", "MEMORY"}

VARIABLES
    store,            \* the object store: location -> object content
    tbl_options,      \* tbl_info.meta.options[TBL_OPT_KEY_SNAPSHOT_LOC], an Option
    tbl_engine,       \* tbl_info.meta.engine of the target table
    pc,               \* position of each invocation of read()
    snapshot_loc,     \* the walker's next location (Option)
    snapshots,        \* Vec<TableSnapshot>
    current_snapshot, \* Option<TableSnapshot>, set by snapshots.remove(0)
    seg_delta,        \* Vec<&String>
    prev_blocks,      \* HashSet<String>
    current_blocks,   \* HashSet<String>
    block_delta,      \* iteration order of prev_blocks.difference(&current_blocks)
    idx,              \* position of the loop the invocation is in
    block_removed,
    segment_removed,
    result,           \* the blocks of the returned stream (rows)
    error,            \* the Err the invocation returned, "" when none
    calls,            \* history: the store calls the invocation issued
    store_at_start,   \* history: the object store when the invocation started
    prev_run          \* history: how the previous invocation ended: "none", "ok",
                      \* "interrupted" (a crash or a failed remove) or "not_found"

locals == <<snapshot_loc, snapshots, current_snapshot, seg_delta, prev_blocks,
            current_blocks, block_delta, idx, block_removed, segment_removed,
            result, error>>
vars == <<store, tbl_options, tbl_engine, pc, snapshot_loc, snapshots, current_snapshot,
          seg_delta, prev_blocks, current_blocks, block_delta, idx,
          block_removed, segment_removed, result, error, calls, store_at_start,
          prev_run>>

\* ------------------------------------------------------------- locations
snapshot_location(id) == "_ss/" \o ToString(id)
segment_location(n) == "_sg/" \o n
block_location(n) == "_b/" \o n

SegLocs == {segment_location(n) : n \in SegNames}
BlockLocs == {block_location(n) : n \in BlockNames}

\* Option<T> is a sequence of at most one element
None == <<>>
Some(x) == <<x>>

Range(s) == {s[k] : k \in 1..Len(s)}

\* the orders in which a HashSet of locations can be iterated
RECURSIVE Orders(_)
Orders(S) ==
    IF S = {} THEN {<<>>}
    ELSE UNION {{<<x>> \o t : t \in Orders(S \ {x})} : x \in S}

\* ----------------------------------------------------------- object store
\* io::read_obj: the object at a location, or NotFound
Exists(loc) == loc \in DOMAIN store

\* DataAccessor::remove of a location that succeeds; a missing location is
\* removed successfully
Removed(loc) == [l \in (DOMAIN store) \ {loc} |-> store[l]]

TableSnapshot(id, prev, segs) ==
    [snapshot_id |-> id, prev_snapshot_id |-> prev, segments |-> segs]

SegmentInfo(blocks) == [blocks |-> blocks]

\* ------------------------------------------------------------------ Init
\* the segment lists of a snapshot and the block lists of a segment, one
\* list per set of locations: read() and blocks_of only collect them into
\* HashSets, the order in a list decides no more than the order of the reads
SegLists == {CHOOSE o \in Orders(S) : TRUE : S \in SUBSET SegLocs}
BlockLists == {CHOOSE o \in Orders(S) : TRUE : S \in SUBSET BlockLocs}

\* a table with a linear history of n snapshots, 0 the newest, all of whose
\* snapshots, segments and blocks are in the store
InitStore(n, segs, blks) ==
    [l \in {snapshot_location(i) : i \in 0..(n - 1)} \cup SegLocs \cup BlockLocs |->
        IF l \in SegLocs THEN SegmentInfo(blks[l])
        ELSE IF l \in BlockLocs THEN [data |-> l]
        ELSE LET i == CHOOSE j \in 0..(n - 1) : snapshot_location(j) = l
             IN TableSnapshot(i, IF i + 1 < n THEN Some(i + 1) ELSE None, segs[i])]

Idle(v) == [r \in RunIds |-> v]

Init ==
    /\ \E n \in 0..MaxChain :
       \E segs \in [0..(n - 1) -> SegLists] :
       \E blks \in [SegLocs -> BlockLists] :
          /\ store = InitStore(n, segs, blks)
          /\ tbl_options = IF n = 0 THEN None ELSE Some(snapshot_location(0))
          /\ store_at_start = Idle(store)
    /\ tbl_engine \in Engines
    /\ pc = Idle("idle")
    /\ snapshot_loc = Idle(None)
    /\ snapshots = Idle(<<>>)
    /\ current_snapshot = Idle(None)
    /\ seg_delta = Idle(<<>>)
    /\ prev_blocks = Idle({})
    /\ current_blocks = Idle({})
    /\ block_delta = Idle(<<>>)
    /\ idx = Idle(0)
    /\ block_removed = Idle(0)
    /\ segment_removed = Idle(0)
    /\ result = Idle(<<>>)
    /\ error = Idle("")
    /\ calls = Idle(<<>>)
    /\ prev_run = "none"

\* ------------------------------------------------------- pure helpers
\* HashSet::from_iter(&current_snapshot.segments)
current_segments(cur) == Range(cur.segments)

\* mutant: only the snapshot right before the current one is looked at
prevs_first(snaps) ==
    IF snaps = <<>> THEN {} ELSE Range(Head(snaps).segments)

\* the fold over the historical snapshots that extends a HashSet with each
\* snapshot's segments
RECURSIVE prevs(_)
prevs(snaps) ==
    IF snaps = <<>> THEN {}
    ELSE Range(Head(snaps).segments) \cup prevs(Tail(snaps))

\* mutant: the difference with current_segments is dropped
seg_delta_all(snaps, cur) == Orders(prevs(snaps))

\* prevs.difference(&current_segments).collect::<Vec<_>>(): the Vec, in any
\* of the orders the HashSet can iterate in
seg_delta_of(snaps, cur) == Orders(prevs(snaps) \ current_segments(cur))

\* mutant: every block of the superseded segments is removed
block_delta_all(prev, cur) == Orders(prev)

\* prev_blocks.difference(&current_blocks), in any iteration order
block_delta_of(prev, cur) == Orders(prev \ cur)

\* mutant: only the first block of a segment is collected
block_locations_first(seg) ==
    IF seg.blocks = <<>> THEN {} ELSE {seg.blocks[1]}

\* the locations blocks_of inserts for one SegmentInfo
block_locations(seg) == Range(seg.blocks)

\* mutant: the short cut is taken for a chain of exactly one snapshot
short_cut_one(snaps) == Len(snaps) = 1

\* mutant: the short cut is taken for an empty chain only
short_cut_empty(snaps) == Len(snaps) < 1

\* mutant: the short cut is also taken for a chain of two snapshots
short_cut_two(snaps) == Len(snaps) <= 2

\* if snapshots.len() <= 1
short_cut(snaps) == Len(snaps) <= 1

\* mutant: the snapshots are iterated without rev()
fwd_nth(snaps, k) == snaps[k]

\* the k-th element of snapshots.iter().rev()
rev_nth(snaps, k) == snaps[Len(snaps) - k + 1]

\* mutant: the segments of the current snapshot are read again after the
\* blocks are removed
DeletionOrderReadsLate ==
    <<"remove_blocks", "current_blocks", "remove_segments", "remove_snapshots">>

\* mutant: the segments are removed before the blocks
DeletionOrderSegmentsFirst == <<"remove_segments", "remove_blocks", "remove_snapshots">>

\* the order of the three removal loops
DeletionOrder == <<"remove_blocks", "remove_segments", "remove_snapshots">>

\* the fields of the schema that create() gives the table function
Schema == <<"snapshot_removed", "segment_removed", "block_removed">>

\* mutant: the three Series are passed in the order the counters are computed
ResultRowBlocksFirst(snap_n, seg_n, blk_n) == <<blk_n, seg_n, snap_n>>

\* the columns of the row of the returned DataBlock, in the order the Series
\* are passed to create_by_array
ResultRow(snap_n, seg_n, blk_n) == <<snap_n, seg_n, blk_n>>

\* a store call that returned Ok, and one that returned Err
Call(op, loc) == [op |-> op, loc |-> loc, ok |-> TRUE]
FailedCall(op, loc) == [op |-> op, loc |-> loc, ok |-> FALSE]

\* the errors a store read can end with besides NotFound: an I/O failure, or
\* bytes that do not decode
ReadFaults == {"StoreError", "MetadataCorrupt"}

\* io::read_obj: the possible outcomes of reading the object at loc, when the
\* faults in `faults` can happen
read_obj(loc, faults) ==
    (IF loc \in DOMAIN store THEN {"ok"} ELSE {"NotFound"}) \cup faults

Ended == {"done", "failed", "crashed"}

\* table::check_table_compatibility: Ok for a table of the FUSE engine
check_table_compatibility(engine) == engine = "FUSE"

\* mutant: the error is swallowed and the invocation returns Ok
FailReturnsOk(r, e) ==
    /\ pc' = [pc EXCEPT ![r] = "done"]
    /\ error' = [error EXCEPT ![r] = ""]

\* `?` on an Err: the invocation returns the error
Fail(r, e) ==
    /\ pc' = [pc EXCEPT ![r] = "failed"]
    /\ error' = [error EXCEPT ![r] = e]

\* ---------------------------------------------------------------- actions
\* mutant: the engine of the table is not checked
StartNoCheck(r) ==
    /\ pc[r] \in {"idle"} \cup Ended
    /\ prev_run' = IF pc[r] = "idle" THEN prev_run
                   ELSE IF pc[r] = "done" THEN "ok"
                   ELSE IF pc[r] = "failed" /\ error[r] = "NotFound" THEN "not_found"
                   ELSE IF pc[r] = "failed" /\ error[r] = "UnsupportedEngine"
                        THEN "unsupported"
                   ELSE "interrupted"
    /\ IF TRUE
       THEN /\ pc' = [pc EXCEPT ![r] = "snapshot_history"]
            /\ error' = [error EXCEPT ![r] = ""]
            /\ snapshot_loc' = [snapshot_loc EXCEPT ![r] = tbl_options]
       ELSE /\ Fail(r, "UnsupportedEngine")
            /\ snapshot_loc' = [snapshot_loc EXCEPT ![r] = None]
    /\ snapshots' = [snapshots EXCEPT ![r] = <<>>]
    /\ current_snapshot' = [current_snapshot EXCEPT ![r] = None]
    /\ seg_delta' = [seg_delta EXCEPT ![r] = <<>>]
    /\ prev_blocks' = [prev_blocks EXCEPT ![r] = {}]
    /\ current_blocks' = [current_blocks EXCEPT ![r] = {}]
    /\ block_delta' = [block_delta EXCEPT ![r] = <<>>]
    /\ idx' = [idx EXCEPT ![r] = 0]
    /\ block_removed' = [block_removed EXCEPT ![r] = 0]
    /\ segment_removed' = [segment_removed EXCEPT ![r] = 0]
    /\ result' = [result EXCEPT ![r] = <<>>]
    /\ calls' = [calls EXCEPT ![r] = <<>>]
    /\ store_at_start' = [store_at_start EXCEPT ![r] = store]
    /\ UNCHANGED <<store, tbl_options, tbl_engine>>

\* read(), lines 153-166: resolve the table, check its engine, take the data
\* accessor and the snapshot location option, enter snapshot_history
Start(r) ==
    /\ pc[r] \in {"idle"} \cup Ended
    /\ prev_run' = IF pc[r] = "idle" THEN prev_run
                   ELSE IF pc[r] = "done" THEN "ok"
                   ELSE IF pc[r] = "failed" /\ error[r] = "NotFound" THEN "not_found"
                   ELSE IF pc[r] = "failed" /\ error[r] = "UnsupportedEngine"
                        THEN "unsupported"
                   ELSE "interrupted"
    /\ IF check_table_compatibility(tbl_engine)
       THEN /\ pc' = [pc EXCEPT ![r] = "snapshot_history"]
            /\ error' = [error EXCEPT ![r] = ""]
            /\ snapshot_loc' = [snapshot_loc EXCEPT ![r] = tbl_options]
       ELSE /\ Fail(r, "UnsupportedEngine")
            /\ snapshot_loc' = [snapshot_loc EXCEPT ![r] = None]
    /\ snapshots' = [snapshots EXCEPT ![r] = <<>>]
    /\ current_snapshot' = [current_snapshot EXCEPT ![r] = None]
    /\ seg_delta' = [seg_delta EXCEPT ![r] = <<>>]
    /\ prev_blocks' = [prev_blocks EXCEPT ![r] = {}]
    /\ current_blocks' = [current_blocks EXCEPT ![r] = {}]
    /\ block_delta' = [block_delta EXCEPT ![r] = <<>>]
    /\ idx' = [idx EXCEPT ![r] = 0]
    /\ block_removed' = [block_removed EXCEPT ![r] = 0]
    /\ segment_removed' = [segment_removed EXCEPT ![r] = 0]
    /\ result' = [result EXCEPT ![r] = <<>>]
    /\ calls' = [calls EXCEPT ![r] = <<>>]
    /\ store_at_start' = [store_at_start EXCEPT ![r] = store]
    /\ UNCHANGED <<store, tbl_options, tbl_engine>>

\* snapshot_history: read the snapshot at the next location and follow its
\* back-reference; a location that is not in the store is NotFound
WalkStep(r, faults) ==
    /\ pc[r] = "snapshot_history"
    /\ snapshot_loc[r] # None
    /\ LET loc == snapshot_loc[r][1] IN
       \E o \in read_obj(loc, faults) :
       IF o = "ok"
       THEN /\ calls' = [calls EXCEPT ![r] = Append(@, Call("read", loc))]
            /\ snapshots' = [snapshots EXCEPT ![r] = Append(@, store[loc])]
            /\ snapshot_loc' = [snapshot_loc EXCEPT ![r] =
                   IF store[loc].prev_snapshot_id = None THEN None
                   ELSE Some(snapshot_location(store[loc].prev_snapshot_id[1]))]
            /\ UNCHANGED <<pc, error>>
       ELSE /\ calls' = [calls EXCEPT ![r] = Append(@, FailedCall("read", loc))]
            /\ Fail(r, o)
            /\ UNCHANGED <<snapshots, snapshot_loc>>
    /\ UNCHANGED <<store, tbl_options, tbl_engine, store_at_start, current_snapshot,
                   seg_delta, prev_blocks,
                   current_blocks, block_delta, idx, block_removed,
                   segment_removed, result, prev_run>>

ReadSnapshot(r) == WalkStep(r, {})

\* read(), lines 168-181: the short cut, or snapshots.remove(0) and seg_delta;
\* Vec::remove panics on an empty Vec
SegDelta(r) ==
    /\ pc[r] = "snapshot_history"
    /\ snapshot_loc[r] = None
    /\ IF short_cut(snapshots[r])
       THEN /\ pc' = [pc EXCEPT ![r] = "done"]
            /\ result' = [result EXCEPT ![r] = <<>>]
            /\ UNCHANGED <<snapshots, current_snapshot, seg_delta, idx, error>>
       ELSE IF snapshots[r] = <<>>
       THEN /\ Fail(r, "panic")
            /\ UNCHANGED <<snapshots, current_snapshot, seg_delta, idx, result>>
       ELSE /\ current_snapshot' = [current_snapshot EXCEPT ![r] = Some(Head(snapshots[r]))]
            /\ snapshots' = [snapshots EXCEPT ![r] = Tail(@)]
            /\ \E d \in seg_delta_of(Tail(snapshots[r]), Head(snapshots[r])) :
                  seg_delta' = [seg_delta EXCEPT ![r] = d]
            /\ idx' = [idx EXCEPT ![r] = 1]
            /\ pc' = [pc EXCEPT ![r] = "prev_blocks"]
            /\ UNCHANGED <<result, error>>
    /\ UNCHANGED <<store, tbl_options, tbl_engine, store_at_start, snapshot_loc,
                   prev_blocks, current_blocks,
                   block_delta, block_removed, segment_removed, calls,
                   prev_run>>

\* mutant: blocks_of skips a segment that it cannot read
PrevBlocksStepSwallows(r, faults) ==
    /\ pc[r] = "prev_blocks"
    /\ IF idx[r] <= Len(seg_delta[r])
       THEN LET loc == seg_delta[r][idx[r]] IN
            \E o \in read_obj(loc, faults) :
            /\ calls' = [calls EXCEPT ![r] = Append(@,
                   IF o = "ok" THEN Call("read", loc) ELSE FailedCall("read", loc))]
            /\ prev_blocks' = [prev_blocks EXCEPT ![r] =
                   IF o = "ok" THEN @ \cup block_locations(store[loc]) ELSE @]
            /\ idx' = [idx EXCEPT ![r] = @ + 1]
            /\ UNCHANGED <<pc, error>>
       ELSE /\ pc' = [pc EXCEPT ![r] = "current_blocks"]
            /\ idx' = [idx EXCEPT ![r] = 1]
            /\ UNCHANGED <<prev_blocks, error, calls>>
    /\ UNCHANGED <<store, tbl_options, tbl_engine, store_at_start, snapshot_loc,
                   snapshots, current_snapshot,
                   seg_delta, current_blocks, block_delta, block_removed,
                   segment_removed, result, prev_run>>

\* blocks_of(da, seg_delta.iter()), line 184: one read_obj per iteration
PrevBlocksStep(r, faults) ==
    /\ pc[r] = "prev_blocks"
    /\ IF idx[r] <= Len(seg_delta[r])
       THEN LET loc == seg_delta[r][idx[r]] IN
            \E o \in read_obj(loc, faults) :
            IF o = "ok"
            THEN /\ calls' = [calls EXCEPT ![r] = Append(@, Call("read", loc))]
                 /\ prev_blocks' = [prev_blocks EXCEPT ![r] =
                        @ \cup block_locations(store[loc])]
                 /\ idx' = [idx EXCEPT ![r] = @ + 1]
                 /\ UNCHANGED <<pc, error>>
            ELSE /\ calls' = [calls EXCEPT ![r] = Append(@, FailedCall("read", loc))]
                 /\ Fail(r, o)
                 /\ UNCHANGED <<prev_blocks, idx>>
       ELSE /\ pc' = [pc EXCEPT ![r] = "current_blocks"]
            /\ idx' = [idx EXCEPT ![r] = 1]
            /\ UNCHANGED <<prev_blocks, error, calls>>
    /\ UNCHANGED <<store, tbl_options, tbl_engine, store_at_start, snapshot_loc,
                   snapshots, current_snapshot,
                   seg_delta, current_blocks, block_delta, block_removed,
                   segment_removed, result, prev_run>>

PrevBlocks(r) == PrevBlocksStep(r, {})

\* blocks_of(da, current_snapshot.segments.iter()), lines 185-188, then
\* block_delta
CurrentBlocksStep(r, faults) ==
    /\ pc[r] = "current_blocks"
    /\ IF idx[r] <= Len(current_snapshot[r][1].segments)
       THEN LET loc == current_snapshot[r][1].segments[idx[r]] IN
            /\ \E o \in read_obj(loc, faults) :
               IF o = "ok"
               THEN /\ calls' = [calls EXCEPT ![r] = Append(@, Call("read", loc))]
                    /\ current_blocks' = [current_blocks EXCEPT ![r] =
                           @ \cup block_locations(store[loc])]
                    /\ idx' = [idx EXCEPT ![r] = @ + 1]
                    /\ UNCHANGED <<pc, error>>
               ELSE /\ calls' = [calls EXCEPT ![r] = Append(@, FailedCall("read", loc))]
                    /\ Fail(r, o)
                    /\ UNCHANGED <<current_blocks, idx>>
            /\ UNCHANGED block_delta
       ELSE /\ \E d \in block_delta_of(prev_blocks[r], current_blocks[r]) :
                  block_delta' = [block_delta EXCEPT ![r] = d]
            /\ pc' = [pc EXCEPT ![r] = DeletionOrder[1]]
            /\ idx' = [idx EXCEPT ![r] = 1]
            /\ UNCHANGED <<current_blocks, error, calls>>
    /\ UNCHANGED <<store, tbl_options, tbl_engine, store_at_start, snapshot_loc,
                   snapshots, current_snapshot,
                   seg_delta, prev_blocks, block_removed, segment_removed, result,
                   prev_run>>

CurrentBlocks(r) == CurrentBlocksStep(r, {})

\* mutant: after the last removal loop the run starts the loops over
LeaveRepeats(r, p) ==
    LET k == CHOOSE j \in 1..Len(DeletionOrder) : DeletionOrder[j] = p IN
    /\ pc' = [pc EXCEPT ![r] = DeletionOrder[(k % Len(DeletionOrder)) + 1]]
    /\ idx' = [idx EXCEPT ![r] = 1]
    /\ UNCHANGED result

\* the removal loop after p, or the result row when p is the last one
\* (lines 212-220)
Leave(r, p) ==
    LET k == CHOOSE j \in 1..Len(DeletionOrder) : DeletionOrder[j] = p IN
    IF k < Len(DeletionOrder)
    THEN /\ pc' = [pc EXCEPT ![r] = DeletionOrder[k + 1]]
         /\ idx' = [idx EXCEPT ![r] = 1]
         /\ UNCHANGED result
    ELSE /\ pc' = [pc EXCEPT ![r] = "done"]
         /\ result' = [result EXCEPT ![r] =
                <<ResultRow(Len(snapshots[r]), segment_removed[r], block_removed[r])>>]
         /\ UNCHANGED idx

\* mutant: a failed remove puts back what the run removed
RemoveLocationRollsBack(r, loc) ==
    \E ok \in BOOLEAN :
       IF ok
       THEN /\ calls' = [calls EXCEPT ![r] = Append(@, Call("remove", loc))]
            /\ store' = Removed(loc)
            /\ idx' = [idx EXCEPT ![r] = @ + 1]
            /\ UNCHANGED <<pc, error>>
       ELSE /\ calls' = [calls EXCEPT ![r] = Append(@, FailedCall("remove", loc))]
            /\ Fail(r, "StoreError")
            /\ store' = store_at_start[r]
            /\ UNCHANGED idx

\* mutant: a failed remove is skipped and the loop goes on
RemoveLocationSkips(r, loc) ==
    \E ok \in BOOLEAN :
       /\ calls' = [calls EXCEPT ![r] =
              Append(@, IF ok THEN Call("remove", loc) ELSE FailedCall("remove", loc))]
       /\ store' = IF ok THEN Removed(loc) ELSE store
       /\ idx' = [idx EXCEPT ![r] = @ + 1]
       /\ UNCHANGED <<pc, error>>

\* mutant: the remove of a location that the store does not hold fails
RemoveLocationMissingFails(r, loc) ==
    \E ok \in BOOLEAN :
       IF ok /\ Exists(loc)
       THEN /\ calls' = [calls EXCEPT ![r] = Append(@, Call("remove", loc))]
            /\ store' = Removed(loc)
            /\ idx' = [idx EXCEPT ![r] = @ + 1]
            /\ UNCHANGED <<pc, error>>
       ELSE /\ calls' = [calls EXCEPT ![r] = Append(@, FailedCall("remove", loc))]
            /\ Fail(r, IF ok THEN "NotFound" ELSE "StoreError")
            /\ UNCHANGED <<store, idx>>

\* remove_location(da, loc).await?: the store removes the object, or the
\* call fails and the invocation returns the store's error
RemoveLocation(r, loc) ==
    \E ok \in BOOLEAN :
       IF ok
       THEN /\ calls' = [calls EXCEPT ![r] = Append(@, Call("remove", loc))]
            /\ store' = Removed(loc)
            /\ idx' = [idx EXCEPT ![r] = @ + 1]
            /\ UNCHANGED <<pc, error>>
       ELSE /\ calls' = [calls EXCEPT ![r] = Append(@, FailedCall("remove", loc))]
            /\ Fail(r, "StoreError")
            /\ UNCHANGED <<store, idx>>

\* 1. remove blocks, lines 192-197
RemoveBlocks(r) ==
    /\ pc[r] = "remove_blocks"
    /\ IF idx[r] <= Len(block_delta[r])
       THEN /\ RemoveLocation(r, block_delta[r][idx[r]])
            /\ block_removed' = [block_removed EXCEPT ![r] =
                   IF idx'[r] = idx[r] THEN @ ELSE @ + 1]
            /\ UNCHANGED result
       ELSE /\ Leave(r, "remove_blocks")
            /\ UNCHANGED <<store, block_removed, error, calls>>
    /\ UNCHANGED <<tbl_options, tbl_engine, store_at_start, snapshot_loc, snapshots,
                   current_snapshot,
                   seg_delta, prev_blocks, current_blocks, block_delta,
                   segment_removed, prev_run>>

\* 2. remove the segments, lines 199-204
RemoveSegments(r) ==
    /\ pc[r] = "remove_segments"
    /\ IF idx[r] <= Len(seg_delta[r])
       THEN /\ RemoveLocation(r, seg_delta[r][idx[r]])
            /\ segment_removed' = [segment_removed EXCEPT ![r] =
                   IF idx'[r] = idx[r] THEN @ ELSE @ + 1]
            /\ UNCHANGED result
       ELSE /\ Leave(r, "remove_segments")
            /\ UNCHANGED <<store, segment_removed, error, calls>>
    /\ UNCHANGED <<tbl_options, tbl_engine, store_at_start, snapshot_loc, snapshots,
                   current_snapshot,
                   seg_delta, prev_blocks, current_blocks, block_delta,
                   block_removed, prev_run>>

\* 3. remove the historical snapshots, lines 206-210
RemoveSnapshots(r) ==
    /\ pc[r] = "remove_snapshots"
    /\ IF idx[r] <= Len(snapshots[r])
       THEN /\ RemoveLocation(r, snapshot_location(rev_nth(snapshots[r], idx[r]).snapshot_id))
            /\ UNCHANGED result
       ELSE /\ Leave(r, "remove_snapshots")
            /\ UNCHANGED <<store, error, calls>>
    /\ UNCHANGED <<tbl_options, tbl_engine, store_at_start, snapshot_loc, snapshots,
                   current_snapshot,
                   seg_delta, prev_blocks, current_blocks, block_delta,
                   block_removed, segment_removed, prev_run>>

\* the process stops in the middle of an invocation
Crash(r) ==
    /\ pc[r] \notin {"idle"} \cup Ended
    /\ pc' = [pc EXCEPT ![r] = "crashed"]
    /\ UNCHANGED <<store, tbl_options, tbl_engine, store_at_start, locals, calls,
                   prev_run>>

\* invocations of the table function one after the other, no writer
Next ==
    \/ Start(1)
    \/ ReadSnapshot(1)
    \/ SegDelta(1)
    \/ PrevBlocks(1)
    \/ CurrentBlocks(1)
    \/ RemoveBlocks(1)
    \/ RemoveSegments(1)
    \/ RemoveSnapshots(1)
    \/ Crash(1)

Spec == Init /\ [][Next]_vars

\* the same invocations when every read of a snapshot or a segment can also
\* fail with an I/O error or on bytes that do not decode
NextFaults ==
    \/ Start(1)
    \/ WalkStep(1, ReadFaults)
    \/ SegDelta(1)
    \/ PrevBlocksStep(1, ReadFaults)
    \/ CurrentBlocksStep(1, ReadFaults)
    \/ RemoveBlocks(1)
    \/ RemoveSegments(1)
    \/ RemoveSnapshots(1)
    \/ Crash(1)

SpecFaults == Init /\ [][NextFaults]_vars

\* the snapshots the writer has promoted so far: it numbers them from
\* MaxChain on
Commits ==
    IF tbl_options = None THEN 0
    ELSE LET id == store[tbl_options[1]].snapshot_id
         IN IF id >= MaxChain THEN id - MaxChain + 1 ELSE 0

\* a writer outside the table function commits: it writes the record of a
\* new snapshot that references segments the store holds and has the
\* current snapshot as its predecessor, and makes it the table's current
\* snapshot
Commit ==
    /\ check_table_compatibility(tbl_engine)
    /\ Commits < MaxCommits
    /\ \E segs \in SegLists :
          /\ Range(segs) \subseteq DOMAIN store
          /\ LET id == MaxChain + Commits
                 prev == IF tbl_options = None THEN None
                         ELSE Some(store[tbl_options[1]].snapshot_id)
             IN /\ store' = [l \in DOMAIN store \cup {snapshot_location(id)} |->
                               IF l = snapshot_location(id)
                               THEN TableSnapshot(id, prev, segs)
                               ELSE store[l]]
                /\ tbl_options' = Some(snapshot_location(id))
    /\ UNCHANGED <<tbl_engine, pc, locals, calls, store_at_start, prev_run>>

\* the first invocation of the table function
FirstStart(r) == pc[r] = "idle" /\ Start(r)

\* one invocation of the table function and a writer, with no mutual
\* exclusion between them
NextWriter ==
    \/ FirstStart(1)
    \/ ReadSnapshot(1)
    \/ SegDelta(1)
    \/ PrevBlocks(1)
    \/ CurrentBlocks(1)
    \/ RemoveBlocks(1)
    \/ RemoveSegments(1)
    \/ RemoveSnapshots(1)
    \/ Commit

SpecWriter == Init /\ [][NextWriter]_vars

\* two invocations of the table function on the same table at the same time:
\* every store call of one can fall between two store calls of the other;
\* invocation 1 is the one that starts first
NextTwoRuns ==
    \E r \in RunIds :
        \/ FirstStart(r) /\ (r = 1 \/ pc[1] # "idle")
        \/ ReadSnapshot(r)
        \/ SegDelta(r)
        \/ PrevBlocks(r)
        \/ CurrentBlocks(r)
        \/ RemoveBlocks(r)
        \/ RemoveSegments(r)
        \/ RemoveSnapshots(r)

SpecTwoRuns == Init /\ [][NextTwoRuns]_vars

\* one invocation of the table function from its call to its return, every
\* store call of which returns, with a value or with an error
NextRun ==
    \/ FirstStart(1)
    \/ WalkStep(1, ReadFaults)
    \/ SegDelta(1)
    \/ PrevBlocksStep(1, ReadFaults)
    \/ CurrentBlocksStep(1, ReadFaults)
    \/ RemoveBlocks(1)
    \/ RemoveSegments(1)
    \/ RemoveSnapshots(1)

\* the executor keeps polling the future of read(): a step that can be taken
\* is taken
SpecRun == Init /\ [][NextRun]_vars /\ WF_vars(NextRun)

\* ------------------------------------------------------------ properties
\* positions of the remove calls an invocation issued
RemoveCalls(r) == {k \in 1..Len(calls[r]) : calls[r][k].op = "remove"}

\* the locations an invocation passed to remove
RemovedLocs(r) == {calls[r][k].loc : k \in RemoveCalls(r)}

\* the invocation is past the computation of seg_delta
HasCurrent(r) == current_snapshot[r] # None

NoDuplicates(s) == Cardinality(Range(s)) = Len(s)

\* 1 for a block location, 2 for a segment location, 3 for a snapshot location
Kind(loc) == IF loc \in BlockLocs THEN 1 ELSE IF loc \in SegLocs THEN 2 ELSE 3

\* the snapshots reachable in the store from the table's snapshot location
RECURSIVE ChainFrom(_)
ChainFrom(opt) ==
    IF opt = None \/ ~Exists(opt[1]) THEN <<>>
    ELSE <<store[opt[1]]>> \o
         ChainFrom(IF store[opt[1]].prev_snapshot_id = None THEN None
                   ELSE Some(snapshot_location(store[opt[1]].prev_snapshot_id[1])))

TableChain == ChainFrom(tbl_options)

\* no back-reference of the table's chain points to a missing record
ChainComplete ==
    /\ tbl_options # None => Exists(tbl_options[1])
    /\ TableChain # <<>> => TableChain[Len(TableChain)].prev_snapshot_id = None

\* C1: in every state of a GC run, of an interrupted run and of a re-run,
\* the table's current snapshot record, every segment of current.segments
\* and every block those segments reference are in the object store.
C1_LiveDataPresent ==
    tbl_options # None =>
        /\ Exists(tbl_options[1])
        /\ \A s \in Range(store[tbl_options[1]].segments) :
              /\ Exists(s)
              /\ \A b \in Range(store[s].blocks) : Exists(b)

\* a run crashed after it removed a block and a segment, and the current
\* snapshot references a segment that has a block
C1_Witness ==
    /\ pc[1] = "crashed"
    /\ block_removed[1] >= 1
    /\ segment_removed[1] >= 1
    /\ \E s \in Range(current_snapshot[1][1].segments) : store[s].blocks # <<>>

\* C2: seg_delta contains no location of current.segments, and no segment
\* of current.segments is passed to remove.
C2_SharedSegmentKept ==
    \A r \in RunIds : HasCurrent(r) =>
        /\ Range(seg_delta[r]) \cap Range(current_snapshot[r][1].segments) = {}
        /\ RemovedLocs(r) \cap Range(current_snapshot[r][1].segments) = {}

\* a finished run whose current snapshot shares a segment with a historical
\* snapshot, and which removed another segment
C2_Witness ==
    /\ pc[1] = "done"
    /\ HasCurrent(1)
    /\ \E s \in Range(current_snapshot[1][1].segments) :
          \E h \in Range(snapshots[1]) : s \in Range(h.segments)
    /\ segment_removed[1] >= 1

\* C3: a block referenced by a segment of seg_delta and by a segment of
\* current.segments is not in block_delta and is not passed to remove.
C3_SharedBlockKept ==
    \A r \in RunIds : pc[r] \in Range(DeletionOrder) \cup Ended =>
        \A b \in prev_blocks[r] \cap current_blocks[r] :
            /\ b \notin Range(block_delta[r])
            /\ b \notin RemovedLocs(r)

\* a finished run with a block shared by a removed and a current segment,
\* and another block that it removed
C3_Witness ==
    /\ pc[1] = "done"
    /\ prev_blocks[1] \cap current_blocks[1] # {}
    /\ block_removed[1] >= 1
    /\ segment_removed[1] >= 1

\* C4: seg_delta is exactly the segment locations of the historical
\* snapshots that are not in current.segments, each once; a run removes no
\* such location twice, and a successful run removes each exactly once.
C4_SegDeltaExact ==
    \A r \in RunIds : HasCurrent(r) =>
        LET hist == UNION {Range(h.segments) : h \in Range(snapshots[r])}
            want == hist \ Range(current_snapshot[r][1].segments)
            n(l) == Cardinality({k \in RemoveCalls(r) : calls[r][k].loc = l})
        IN /\ Range(seg_delta[r]) = want
           /\ NoDuplicates(seg_delta[r])
           /\ \A l \in want : n(l) <= 1
           /\ pc[r] = "done" => \A l \in want : n(l) = 1

\* a finished run on two historical snapshots that both reference a segment
\* the current snapshot does not
C4_Witness ==
    /\ pc[1] = "done"
    /\ Len(snapshots[1]) >= 2
    /\ \E l \in Range(seg_delta[1]) :
          /\ l \in Range(snapshots[1][1].segments)
          /\ l \in Range(snapshots[1][2].segments)

\* C5: when the removal starts, block_delta is the blocks of the segments
\* of seg_delta, as the store holds them, minus the blocks of the segments
\* of current.segments, each once.
C5_BlockDeltaExact ==
    \A r \in RunIds : (pc[r] = "remove_blocks" /\ idx[r] = 1) =>
        LET of(S) == UNION {Range(store[s].blocks) : s \in S} IN
        /\ Range(block_delta[r]) =
              of(Range(seg_delta[r])) \ of(Range(current_snapshot[r][1].segments))
        /\ NoDuplicates(block_delta[r])

\* block_delta is computed, not empty, and a block of a superseded segment
\* is kept because a current segment has it
C5_Witness ==
    /\ pc[1] = "remove_blocks"
    /\ idx[1] = 1
    /\ block_delta[1] # <<>>
    /\ prev_blocks[1] \cap current_blocks[1] # {}
    /\ \E s \in Range(seg_delta[1]) : Len(store[s].blocks) >= 2

\* C6: in the calls of one run, every block removal comes before every
\* segment removal, and every segment removal before every snapshot removal.
C6_PhaseOrder ==
    \A r \in RunIds :
        \A p, q \in RemoveCalls(r) :
            p < q => Kind(calls[r][p].loc) <= Kind(calls[r][q].loc)

\* a finished run that removed blocks, segments and snapshots
C6_Witness ==
    /\ pc[1] = "done"
    /\ block_removed[1] >= 1
    /\ segment_removed[1] >= 1
    /\ \E k \in RemoveCalls(1) : Kind(calls[1][k].loc) = 3

\* position in the chain [S0, S1, ..., Sn] of a snapshot location
ChainPos(r, loc) ==
    CHOOSE k \in 1..Len(snapshots[r]) :
        snapshot_location(snapshots[r][k].snapshot_id) = loc

\* C7: the historical snapshot records are removed from the oldest to the
\* newest, and the record of the current snapshot S0 is never removed.
C7_OldestFirst ==
    \A r \in RunIds : HasCurrent(r) =>
        LET snap_calls == {k \in RemoveCalls(r) : Kind(calls[r][k].loc) = 3} IN
        /\ \A p, q \in snap_calls :
              p < q => ChainPos(r, calls[r][p].loc) > ChainPos(r, calls[r][q].loc)
        /\ \A k \in snap_calls :
              /\ calls[r][k].loc # snapshot_location(current_snapshot[r][1].snapshot_id)
              /\ calls[r][k].loc # tbl_options[1]
        /\ pc[r] = "done" =>
              \A k \in 1..Len(snapshots[r]) :
                  snapshot_location(snapshots[r][k].snapshot_id) \in RemovedLocs(r)

\* a finished run that removed the records of three historical snapshots
C7_Witness ==
    /\ pc[1] = "done"
    /\ Len(snapshots[1]) >= 2
    /\ Cardinality({k \in RemoveCalls(1) : Kind(calls[1][k].loc) = 3}) >= 2

\* the objects a finished invocation found superseded are gone
SupersededRemoved(r) ==
    HasCurrent(r) =>
    /\ \A h \in Range(snapshots[r]) : ~Exists(snapshot_location(h.snapshot_id))
    /\ \A l \in Range(seg_delta[r]) \cup Range(block_delta[r]) : ~Exists(l)

\* C8: a re-run after an interrupted run (a crash or a failed remove), in
\* which no store call fails any more, ends successfully with every
\* superseded block, segment and historical snapshot record removed.
C8_RetryCompletes ==
    \A r \in RunIds : prev_run = "interrupted" =>
        /\ pc[r] = "failed" => error[r] = "StoreError"
        /\ pc[r] = "done" => SupersededRemoved(r)

\* C9: a re-run right after a successful run succeeds, returns zero rows
\* and issues no remove call.
C9_RerunAfterSuccessIsNoop ==
    \A r \in RunIds : prev_run = "ok" =>
        /\ pc[r] # "failed"
        /\ pc[r] = "done" => result[r] = <<>>
        /\ RemoveCalls(r) = {}

\* C10 as claimed: on a table whose chain has at most one snapshot a
\* finished run returned zero rows and issued no store call at all.
C10_ShortChainNoStoreCalls ==
    \A r \in RunIds :
        (pc[r] = "done" /\ ChainComplete /\ Len(TableChain) <= 1) =>
            /\ result[r] = <<>>
            /\ calls[r] = <<>>

\* C10 amended: on a table whose chain has at most one snapshot a finished
\* run returned zero rows and issued no remove call; its store calls are
\* the walker's reads of the snapshot records of the chain, one for a chain
\* of length 1 and none for an empty chain.
C10_ShortChainReadsOnlyChain ==
    \A r \in RunIds :
        (pc[r] = "done" /\ ChainComplete /\ Len(TableChain) <= 1) =>
            /\ result[r] = <<>>
            /\ RemoveCalls(r) = {}
            /\ calls[r] = [k \in 1..Len(TableChain) |->
                              Call("read", snapshot_location(TableChain[k].snapshot_id))]

\* a finished run on a table whose chain is the current snapshot alone,
\* with a segment in it
C10_Witness ==
    /\ pc[1] = "done"
    /\ ChainComplete
    /\ Len(TableChain) = 1
    /\ TableChain[1].segments # <<>>
    /\ Len(calls[1]) = 1

\* the column of a result row that the schema names `name`
Column(row, name) == row[CHOOSE k \in 1..Len(Schema) : Schema[k] = name]

\* the store calls of an invocation that returned an error
FailedCalls(r) == {k \in 1..Len(calls[r]) : ~calls[r][k].ok}

\* the snapshot records the walker of an invocation read
SnapshotsRead(r) ==
    {k \in 1..Len(calls[r]) :
        calls[r][k].op = "read" /\ calls[r][k].ok /\ Kind(calls[r][k].loc) = 3}

\* C11: a run that succeeds on a chain of two or more snapshots returns one
\* row; its column snapshot_removed is the number of historical snapshots,
\* segment_removed the size of seg_delta and block_removed the size of
\* block_delta.
C11_RowHasFullCounts ==
    \A r \in RunIds : (pc[r] = "done" /\ HasCurrent(r)) =>
        /\ Len(result[r]) = 1
        /\ Len(result[r][1]) = Len(Schema)
        /\ Column(result[r][1], "snapshot_removed") = Cardinality(SnapshotsRead(r)) - 1
        /\ Column(result[r][1], "segment_removed") = Cardinality(Range(seg_delta[r]))
        /\ Column(result[r][1], "block_removed") = Cardinality(Range(block_delta[r]))

\* a finished run whose three counts are 2 snapshots, 1 segment and no block
C11_Witness ==
    /\ pc[1] = "done"
    /\ HasCurrent(1)
    /\ Len(snapshots[1]) = 2
    /\ Len(seg_delta[1]) = 1
    /\ Len(block_delta[1]) = 0
    /\ result[1] # <<>>

\* C12: an invocation ends with a result or with an error, not both; when a
\* read or a remove fails it ends with the error and no row, and a row
\* carries the counts of the complete deltas.
C12_ResultOrError ==
    \A r \in RunIds :
        /\ FailedCalls(r) # {} => pc[r] = "failed"
        /\ pc[r] = "failed" => (error[r] # "" /\ result[r] = <<>>)
        /\ pc[r] = "done" => error[r] = ""
        /\ pc[r] # "done" => result[r] = <<>>
        /\ result[r] # <<>> =>
              /\ block_removed[r] = Len(block_delta[r])
              /\ segment_removed[r] = Len(seg_delta[r])
              /\ result[r] = <<ResultRow(Len(snapshots[r]), Len(seg_delta[r]),
                                        Len(block_delta[r]))>>

\* a run that failed on a remove after it removed a block and a segment
C12_Witness ==
    /\ pc[1] = "failed"
    /\ error[1] = "StoreError"
    /\ block_removed[1] >= 1
    /\ segment_removed[1] >= 1
    /\ result[1] = <<>>

\* C13: a remove call that fails is the last store call of the run, and the
\* run ends with the store's error.
C13_FailedRemoveIsLast ==
    \A r \in RunIds :
        \A k \in RemoveCalls(r) :
            ~calls[r][k].ok =>
                /\ k = Len(calls[r])
                /\ pc[r] = "failed"
                /\ error[r] = "StoreError"

\* the first of two block removals succeeded, the second failed
C13_Witness ==
    /\ pc[1] = "failed"
    /\ Len(block_delta[1]) = 2
    /\ block_removed[1] = 1
    /\ seg_delta[1] # <<>>
    /\ FailedCalls(1) # {}

\* the walk from a snapshot location option in the store st meets a location
\* that st does not hold
RECURSIVE Dangling(_, _)
Dangling(st, opt) ==
    IF opt = None THEN FALSE
    ELSE IF opt[1] \notin DOMAIN st THEN TRUE
    ELSE Dangling(st, IF st[opt[1]].prev_snapshot_id = None THEN None
                      ELSE Some(snapshot_location(st[opt[1]].prev_snapshot_id[1])))

\* the reads of segments of an invocation that failed
FailedSegmentReads(r) ==
    {k \in FailedCalls(r) : calls[r][k].op = "read" /\ Kind(calls[r][k].loc) = 2}

\* C14: when a read of a segment of seg_delta or of current.segments fails
\* (I/O error, undecodable bytes or a missing object), the run ends with
\* that error, has issued no remove call, and the object store is as it was
\* when the run started.
C14_SegmentReadFailureDeletesNothing ==
    \A r \in RunIds : FailedSegmentReads(r) # {} =>
        /\ pc[r] = "failed"
        /\ error[r] \in ReadFaults \cup {"NotFound"}
        /\ RemoveCalls(r) = {}
        /\ store = store_at_start[r]
        /\ block_delta[r] = <<>>

\* the second segment of seg_delta did not decode, the first was read
C14_Witness ==
    /\ pc[1] = "failed"
    /\ error[1] = "MetadataCorrupt"
    /\ FailedSegmentReads(1) # {}
    /\ Len(seg_delta[1]) = 2
    /\ idx[1] = 2
    /\ prev_blocks[1] # {}

\* C15: when the chain of the table has a back-reference to a snapshot
\* location that the store does not hold, the walker fails with NotFound on
\* it: the run computes no delta from the partial history, removes nothing
\* and ends with NotFound.
C15_DanglingChainIsFatal ==
    \A r \in RunIds :
        (pc[r] # "idle" /\ check_table_compatibility(tbl_engine)
            /\ Dangling(store_at_start[r], tbl_options)) =>
            /\ pc[r] \in {"snapshot_history", "failed", "crashed"}
            /\ ~HasCurrent(r)
            /\ seg_delta[r] = <<>>
            /\ RemoveCalls(r) = {}
            /\ store = store_at_start[r]
            /\ pc[r] = "failed" =>
                  /\ error[r] = "NotFound"
                  /\ FailedCalls(r) = {Len(calls[r])}
                  /\ Kind(calls[r][Len(calls[r])].loc) = 3

\* a run on a table whose S1 names a removed S2 failed after it read S0, S1
C15_Witness ==
    /\ pc[1] = "failed"
    /\ error[1] = "NotFound"
    /\ Dangling(store_at_start[1], tbl_options)
    /\ Len(snapshots[1]) = 2

\* C16: on a table that is not of the FUSE engine an invocation fails with
\* UnsupportedEngine and issues no store call; the store is unchanged.
C16_UnsupportedEngineFailsFast ==
    \A r \in RunIds : ~check_table_compatibility(tbl_engine) =>
        /\ pc[r] \in {"idle", "failed"}
        /\ pc[r] = "failed" => error[r] = "UnsupportedEngine"
        /\ calls[r] = <<>>
        /\ store = store_at_start[r]

\* the invocation on a MEMORY table with a chain of two snapshots failed
C16_Witness ==
    /\ tbl_engine = "MEMORY"
    /\ pc[1] = "failed"
    /\ Len(TableChain) >= 2
    /\ prevs(Tail(TableChain)) # {}

\* C17: no step of an invocation, a failing one and a crash included,
\* changes the table's snapshot location, adds an object to the store or
\* changes the content of an object: the store only shrinks.
C17_StoreOnlyShrinks ==
    [][/\ tbl_options' = tbl_options
       /\ tbl_engine' = tbl_engine
       /\ DOMAIN store' \subseteq DOMAIN store
       /\ \A l \in DOMAIN store' : store'[l] = store[l]]_vars

\* a run failed on a remove after it had removed objects, which stay removed
C17_Witness ==
    /\ pc[1] = "failed"
    /\ error[1] = "StoreError"
    /\ DOMAIN store # DOMAIN store_at_start[1]
    /\ DOMAIN store \subseteq DOMAIN store_at_start[1]

\* C19: on a FUSE table without a snapshot location the walker reads
\* nothing, and the invocation succeeds with zero rows and no store call.
C19_NoSnapshotLocation ==
    \A r \in RunIds :
        (tbl_options = None /\ check_table_compatibility(tbl_engine)) =>
            /\ pc[r] # "failed"
            /\ calls[r] = <<>>
            /\ snapshots[r] = <<>>
            /\ pc[r] = "done" => result[r] = <<>>

\* the invocation on a never written FUSE table is done
C19_Witness ==
    /\ tbl_options = None
    /\ tbl_engine = "FUSE"
    /\ pc[1] = "done"
    /\ result[1] = <<>>

\* C20: in the store calls of a run no read comes after a remove, and the
\* first remove is issued when both deltas are computed.
C20_ReadsBeforeRemoves ==
    \A r \in RunIds :
        /\ \A p, q \in 1..Len(calls[r]) :
              (p < q /\ calls[r][p].op = "remove") => calls[r][q].op = "remove"
        /\ RemoveCalls(r) # {} =>
              /\ pc[r] \in Range(DeletionOrder) \cup Ended
              /\ \A l \in RemovedLocs(r) :
                    l \in Range(block_delta[r]) \cup Range(seg_delta[r])
                       \cup {snapshot_location(h.snapshot_id) : h \in Range(snapshots[r])}

\* a finished run that read two snapshots and two segments and removed
\* blocks, segments and a snapshot
C20_Witness ==
    /\ pc[1] = "done"
    /\ Cardinality({k \in 1..Len(calls[1]) :
           calls[1][k].op = "read" /\ Kind(calls[1][k].loc) = 2}) >= 2
    /\ block_removed[1] >= 1
    /\ segment_removed[1] >= 1
    /\ current_snapshot[1][1].segments # <<>>

\* the segments of the table's current snapshot and the blocks of those of
\* them that the store holds
LiveLocs ==
    IF tbl_options = None \/ ~Exists(tbl_options[1]) THEN {}
    ELSE LET segs == Range(store[tbl_options[1]].segments)
         IN segs \cup UNION {Range(store[s].blocks) : s \in segs \cap DOMAIN store}

\* the objects the table's current snapshot references and the store lacks
LostLocs == LiveLocs \ DOMAIN store

\* C18: with a writer and no mutual exclusion the table's current snapshot
\* can come to reference a segment or a block that is gone, and only in one
\* way: a GC run that observed an older snapshot as current had the object
\* in its seg_delta or block_delta and passed it to remove.
C18_LostOnlyToStaleDelta ==
    \A l \in LostLocs :
        \E r \in RunIds :
            /\ HasCurrent(r)
            /\ Some(snapshot_location(current_snapshot[r][1].snapshot_id)) # tbl_options
            /\ l \in Range(seg_delta[r]) \cup Range(block_delta[r])
            /\ l \in RemovedLocs(r)

\* the writer promoted a snapshot that references a segment of seg_delta
\* after the delta was computed, and the run went on to remove that segment
\* and finished
C18_Witness ==
    /\ pc[1] = "done"
    /\ Commits = 1
    /\ \E s \in Range(seg_delta[1]) :
          /\ s \in Range(store[tbl_options[1]].segments)
          /\ s \in LostLocs
    /\ store[tbl_options[1]].prev_snapshot_id =
          Some(current_snapshot[1][1].snapshot_id)
    /\ snapshot_location(MaxChain) \notin DOMAIN store_at_start[1]

\* the locations of the historical snapshot records of an invocation
HistoryLocs(r) == {snapshot_location(h.snapshot_id) : h \in Range(snapshots[r])}

\* the blocks that the segments S reference in the store st
BlocksIn(st, S) == UNION {Range(st[s].blocks) : s \in S \cap DOMAIN st}

\* segment_delta and block_delta of an invocation as the store held them when
\* the invocation started
SegmentDeltaAtStart(r) ==
    UNION {Range(h.segments) : h \in Range(snapshots[r])}
        \ Range(current_snapshot[r][1].segments)

BlockDeltaAtStart(r) ==
    BlocksIn(store_at_start[r], SegmentDeltaAtStart(r))
        \ BlocksIn(store_at_start[r], Range(current_snapshot[r][1].segments))

\* C21: a run passes to remove only locations of block_delta, segment_delta
\* and the historical snapshot records; when it has succeeded the store is
\* the store it started with minus exactly these three sets, every other
\* object unchanged.
C21_StoreMinusDeltas ==
    \A r \in RunIds :
        /\ HasCurrent(r) =>
              RemovedLocs(r) \subseteq
                  BlockDeltaAtStart(r) \cup SegmentDeltaAtStart(r) \cup HistoryLocs(r)
        /\ ~HasCurrent(r) => RemovedLocs(r) = {}
        /\ (pc[r] = "done" /\ HasCurrent(r)) =>
              /\ DOMAIN store = DOMAIN store_at_start[r] \
                    (BlockDeltaAtStart(r) \cup SegmentDeltaAtStart(r) \cup HistoryLocs(r))
              /\ \A l \in DOMAIN store : store[l] = store_at_start[r][l]
        /\ (pc[r] = "done" /\ ~HasCurrent(r)) => store = store_at_start[r]

\* a finished run that removed a block, a segment and two snapshot records
\* and left a segment and a block that no snapshot references
C21_Witness ==
    /\ pc[1] = "done"
    /\ HasCurrent(1)
    /\ BlockDeltaAtStart(1) # {}
    /\ SegmentDeltaAtStart(1) # {}
    /\ Cardinality(HistoryLocs(1)) = 2
    /\ \E s \in SegLocs : Exists(s) /\ s \notin Range(current_snapshot[1][1].segments)
    /\ \E b \in BlockLocs :
          Exists(b) /\ b \notin BlocksIn(store, Range(current_snapshot[1][1].segments))

\* the objects of one kind that the store held when the invocation started
\* and does not hold now
Gone(r, kind) ==
    {l \in DOMAIN store_at_start[r] : l \notin DOMAIN store /\ Kind(l) = kind}

\* C22 as claimed: the counts of the row of a successful run are the numbers
\* of blocks, segments and snapshot records that were in the store before
\* the run and are not in it after, also in a re-run after an interrupted
\* run.
C22_CountsEqualReality ==
    \A r \in RunIds : (pc[r] = "done" /\ result[r] # <<>>) =>
        /\ Column(result[r][1], "block_removed") = Cardinality(Gone(r, 1))
        /\ Column(result[r][1], "segment_removed") = Cardinality(Gone(r, 2))
        /\ Column(result[r][1], "snapshot_removed") = Cardinality(Gone(r, 3))

\* the chain [S0, S1, ..., Sn] an invocation walked, newest first
ChainOf(r) == <<current_snapshot[r][1]>> \o snapshots[r]

\* the record of the k-th snapshot of the chain of an invocation is in the
\* store
Present(r, k) == Exists(snapshot_location(ChainOf(r)[k].snapshot_id))

\* C23 as claimed: no historical snapshot record that is still present has a
\* back-reference to an older historical snapshot record that is removed.
C23_NoHistoricalBackRefToRemoved ==
    \A r \in RunIds : HasCurrent(r) =>
        \A k \in 2..(Len(ChainOf(r)) - 1) :
            Present(r, k) => Present(r, k + 1)

\* C23 amended: a snapshot record that is still present and whose
\* back-reference names a removed record is the oldest record still
\* present; every record older than it is removed, so at most one
\* back-reference of the chain dangles.
C23_OnlyOldestPresentDangles ==
    \A r \in RunIds : HasCurrent(r) =>
        \A k \in 1..(Len(ChainOf(r)) - 1) :
            (Present(r, k) /\ ~Present(r, k + 1)) =>
                \A j \in (k + 1)..Len(ChainOf(r)) : ~Present(r, j)

\* in the snapshot phase of a run on [S0, S1, S2] the record of S2 is
\* removed and that of S1, which names S2, is still present
C23_Witness ==
    /\ pc[1] = "remove_snapshots"
    /\ HasCurrent(1)
    /\ Len(ChainOf(1)) = 3
    /\ Present(1, 1) /\ Present(1, 2) /\ ~Present(1, 3)
    /\ ChainOf(1)[2].prev_snapshot_id = Some(ChainOf(1)[3].snapshot_id)

\* C24: in every state of a run, a crash inside the snapshot-removal phase
\* included, the snapshot records in the store are a prefix [S0, ..., Sk] of
\* the chain the table started with: the record of the current snapshot is
\* there, and a record is there only if every newer one is.
C24_PresentSnapshotsArePrefix ==
    /\ tbl_options # None => Exists(tbl_options[1])
    /\ \A i \in 1..(MaxChain - 1) :
          Exists(snapshot_location(i)) => Exists(snapshot_location(i - 1))
    /\ \A r \in RunIds : HasCurrent(r) =>
          \A k \in 2..Len(ChainOf(r)) : Present(r, k) => Present(r, k - 1)

\* a run on [S0, S1, S2] crashed in the snapshot-removal phase after it
\* removed the record of S2 and before it removed that of S1
C24_Witness ==
    /\ pc[1] = "crashed"
    /\ HasCurrent(1)
    /\ Len(ChainOf(1)) = 3
    /\ \E k \in RemoveCalls(1) : Kind(calls[1][k].loc) = 3
    /\ Present(1, 2)
    /\ ~Present(1, 3)

\* when the invocation started the store held every segment and every
\* snapshot record of the table's chain: no earlier run had removed a
\* segment or a snapshot record
OnlyBlocksLost(r) ==
    /\ SegLocs \subseteq DOMAIN store_at_start[r]
    /\ ~Dangling(store_at_start[r], tbl_options)

\* C25: a re-run after a run that was interrupted before it removed a
\* segment does not fail on a missing object; it computes seg_delta and
\* block_delta as the interrupted run did, from the same snapshot and segment
\* records, the blocks that are already gone included, and when it is done
\* every superseded object is removed.
C25_RerunAfterBlockPhase ==
    \A r \in RunIds : (prev_run = "interrupted" /\ OnlyBlocksLost(r)) =>
        /\ pc[r] = "failed" => error[r] = "StoreError"
        /\ HasCurrent(r) => Range(seg_delta[r]) = SegmentDeltaAtStart(r)
        /\ (HasCurrent(r) /\ pc[r] \in Range(DeletionOrder) \cup {"done"}) =>
              Range(block_delta[r]) = BlockDeltaAtStart(r)
        /\ pc[r] = "done" => SupersededRemoved(r)

\* the re-run is done; the run before it had removed one of the two blocks
\* of block_delta, and the re-run passed both to remove
C25_Witness ==
    /\ prev_run = "interrupted"
    /\ OnlyBlocksLost(1)
    /\ pc[1] = "done"
    /\ Len(block_delta[1]) = 2
    /\ \E b \in Range(block_delta[1]) : b \notin DOMAIN store_at_start[1]
    /\ \E b \in Range(block_delta[1]) : b \in DOMAIN store_at_start[1]
    /\ seg_delta[1] # <<>>

\* C26: a successful run that walked a chain of two or more snapshots
\* returns exactly one row, whatever the deltas are, and its snapshot_removed
\* is at least 1; a successful run returns zero rows exactly when the chain
\* it walked has at most one snapshot.
C26_OneRowIffChainOfTwo ==
    \A r \in RunIds : pc[r] = "done" =>
        /\ Cardinality(SnapshotsRead(r)) >= 2 =>
              /\ Len(result[r]) = 1
              /\ Column(result[r][1], "snapshot_removed") >= 1
        /\ result[r] = <<>> <=> Cardinality(SnapshotsRead(r)) <= 1

\* a finished run on a chain of two snapshots with the same segments: both
\* deltas are empty and the row is <<1, 0, 0>>
C26_Witness ==
    /\ pc[1] = "done"
    /\ Cardinality(SnapshotsRead(1)) = 2
    /\ current_snapshot[1][1].segments # <<>>
    /\ seg_delta[1] = <<>>
    /\ block_delta[1] = <<>>
    /\ result[1] = <<ResultRow(1, 0, 0)>>

\* C27: while two runs interleave on a table that no writer changes, the
\* record of the current snapshot, the segments of current.segments and the
\* blocks of those segments stay in the store and are passed to remove by
\* neither run; a run that ends has succeeded or has returned an error, and
\* a run that met a missing object has returned NotFound.
C27_TwoRunsKeepLiveData ==
    /\ tbl_options # None => Exists(tbl_options[1])
    /\ LiveLocs \subseteq DOMAIN store
    /\ \A r \in RunIds :
          /\ RemovedLocs(r) \cap (LiveLocs \cup Range(tbl_options)) = {}
          /\ pc[r] \in Ended => pc[r] \in {"done", "failed"}
          /\ pc[r] = "failed" =>
                error[r] \in {"StoreError", "NotFound", "UnsupportedEngine"}
          /\ pc[r] = "done" => error[r] = ""
          /\ \A k \in FailedCalls(r) :
                calls[r][k].op = "read" => (pc[r] = "failed" /\ error[r] = "NotFound")

\* both runs walked the full chain before either removed anything; run 1
\* finished, and run 2 failed on a segment that run 1 had removed
C27_Witness ==
    /\ pc[1] = "done"
    /\ pc[2] = "failed"
    /\ error[2] = "NotFound"
    /\ HasCurrent(1) /\ HasCurrent(2)
    /\ snapshots[1] = snapshots[2]
    /\ segment_removed[1] >= 1
    /\ FailedSegmentReads(2) # {}
    /\ LiveLocs # {}

\* the locations of the snapshot records a writer promoted since the
\* invocation started
PromotedDuring(r) ==
    {l \in DOMAIN store : Kind(l) = 3 /\ l \notin DOMAIN store_at_start[r]}

\* the segments of the historical snapshots of an invocation
HistorySegments(r) == UNION {Range(h.segments) : h \in Range(snapshots[r])}

\* a segment that is new to the history the invocation walked: neither its
\* location nor one of its block locations appears in a historical snapshot's
\* segments
NewToHistory(r, s) ==
    /\ s \notin HistorySegments(r)
    /\ BlocksIn(store_at_start[r], {s}) \cap
          BlocksIn(store_at_start[r], HistorySegments(r)) = {}

\* every snapshot promoted during the invocation references only segments of
\* the snapshot the invocation observed as current and segments new to the
\* history
WriterKeepsToCurrent(r) ==
    \A w \in PromotedDuring(r) :
        \A s \in Range(store[w].segments) :
            s \in Range(current_snapshot[r][1].segments) \/ NewToHistory(r, s)

RECURSIVE RemoveAll(_, _)
RemoveAll(st, locs) ==
    IF locs = <<>> THEN st
    ELSE RemoveAll([l \in (DOMAIN st) \ {Head(locs)} |-> st[l]], Tail(locs))

\* the snapshot locations of an invocation in the order of the third loop
RECURSIVE SnapshotRemovals(_, _)
SnapshotRemovals(r, k) ==
    IF k > Len(snapshots[r]) THEN <<>>
    ELSE <<snapshot_location(rev_nth(snapshots[r], k).snapshot_id)>>
             \o SnapshotRemovals(r, k + 1)

\* C29: a successful run in which no remove failed ends in the store and
\* with the row that a run from the same store ends with when it removes
\* the blocks of block_delta and the segments of segment_delta in any other
\* order: all such runs end alike.
C29_OrderInsidePhaseIrrelevant ==
    \A r \in RunIds : (pc[r] = "done" /\ HasCurrent(r) /\ FailedCalls(r) = {}) =>
        \A bd \in Orders(BlockDeltaAtStart(r)) :
        \A sd \in Orders(SegmentDeltaAtStart(r)) :
            /\ store = RemoveAll(store_at_start[r], bd \o sd \o SnapshotRemovals(r, 1))
            /\ result[r] = <<ResultRow(Len(snapshots[r]), Len(sd), Len(bd))>>

\* a finished run that had two blocks and two segments to remove and removed
\* the second block of the store's order first
C29_Witness ==
    /\ pc[1] = "done"
    /\ HasCurrent(1)
    /\ Len(block_delta[1]) = 2
    /\ Len(seg_delta[1]) = 2
    /\ block_delta[1] # CHOOSE o \in Orders(Range(block_delta[1])) : TRUE
    /\ seg_delta[1] # CHOOSE o \in Orders(Range(seg_delta[1])) : TRUE

\* the number of remove calls of an invocation on one location
RemoveCount(r, loc) == Cardinality({k \in RemoveCalls(r) : calls[r][k].loc = loc})

\* C30: an invocation whose store calls all return ends: it returns zero
\* rows, one row or an error; and up to there it has called remove at most
\* once on each location of block_delta, of seg_delta and of the historical
\* snapshot records, and on no other location.
C30_Terminates ==
    /\ (pc[1] = "snapshot_history") ~> (pc[1] \in {"done", "failed"})
    /\ [](\A l \in RemovedLocs(1) :
             /\ RemoveCount(1, l) = 1
             /\ l \in Range(block_delta[1]) \cup Range(seg_delta[1]) \cup HistoryLocs(1))
    /\ [](pc[1] = "done" => (result[1] = <<>> \/ Len(result[1]) = 1))
    /\ [](pc[1] = "failed" => error[1] # "")

\* an invocation on a chain of three snapshots has returned its row after
\* six remove calls: two blocks, two segments, two snapshot records
C30_Witness ==
    /\ pc[1] = "done"
    /\ Len(snapshots[1]) = 2
    /\ Len(result[1]) = 1
    /\ Cardinality(RemoveCalls(1)) = 6

====
